---- MODULE Spec2Model ----
(***************************************************************************)
(* Model of email_hook: the EmailEngine class hierarchy (engine.py) and    *)
(* email_engine_factory (engine_factory.py).                               *)
(*                                                                         *)
(* Python values are tagged records, a dict is the sequence of its         *)
(* (key, value) pairs in insertion order, and the evaluation of an         *)
(* expression is a record [exc, val]: exc.type = "none" when it returns    *)
(* val, the raised exception otherwise.  A method that touches the shared  *)
(* class state returns, with that, the ERRORS list and the transport log   *)
(* as it leaves them, the lines it printed and the send hooks it entered.  *)
(*                                                                         *)
(* The methods are modelled as their bodies are written, called on the     *)
(* classes.  The class attribute FROM_EMAIL is the value of the expression *)
(* at engine.py:17, which raises; a read of it yields that failure.        *)
(***************************************************************************)
EXTENDS Integers, Sequences, FiniteSets, TLC

VARIABLES settings, ERRORS, sent, last

vars == <<settings, ERRORS, sent, last>>

\* ------------------------------------------------------------------ bounds
MaxErrors == 6
MaxSent == 1

\* ---------------------------------------------------------- Python values
None == [t |-> "None"]
Str(s) == [t |-> "str", s |-> s]
Bool(b) == [t |-> "bool", b |-> b]
List(items) == [t |-> "list", items |-> items]
Dict(items) == [t |-> "dict", items |-> items]
Class(name) == [t |-> "class", name |-> name]
Unset == [t |-> "unset"]
SettingsObj == [t |-> "settings"]

\* bool(v)
Truthy(v) ==
    CASE v.t = "None" -> FALSE
      [] v.t = "str" -> v.s # ""
      [] v.t = "bool" -> v.b
      [] v.t \in {"list", "dict"} -> v.items # <<>>
      [] OTHER -> TRUE

NoExc == [type |-> "none"]
Ok(v) == [exc |-> NoExc, val |-> v]
Raised(e) == [exc |-> e, val |-> None]
IsOk(r) == r.exc.type = "none"

TypeError(text) == [type |-> "TypeError", text |-> text]

\* a or b, b evaluated only when a is falsy
Or(a, b) == IF ~IsOk(a) THEN a ELSE IF Truthy(a.val) THEN a ELSE b

\* a dict display {k1: e1, ...}: the first entry that raises ends it
RECURSIVE DictDisplay(_, _)
DictDisplay(entries, acc) ==
    IF entries = <<>> THEN Ok(Dict(acc))
    ELSE LET e == Head(entries) IN
         IF ~IsOk(e[2]) THEN e[2]
         ELSE DictDisplay(Tail(entries), Append(acc, <<e[1], e[2].val>>))

\* dict.values() and the keys in iteration order
Values(d) == [i \in 1..Len(d.items) |-> d.items[i][2]]
Keys(d) == [i \in 1..Len(d.items) |-> d.items[i][1]]
KeySet(d) == {d.items[i][1] : i \in 1..Len(d.items)}
Lookup(d, k) == (CHOOSE i \in 1..Len(d.items) : d.items[i][1] = k)

\* ----------------------------------------------------- process settings
SettingNames ==
    {"EMAIL_HOST_USER", "POSTMARK_API_KEY",
     "AWS_SES_ACCESS_KEY_ID", "AWS_ACCESS_KEY_ID",
     "AWS_SES_SECRET_ACCESS_KEY", "AWS_SECRET_ACCESS_KEY",
     "AWS_SES_REGION", "AWS_DEFAULT_REGION"}

\* the values a setting takes in the model: not defined, empty, or a text
SettingValues(name) ==
    CASE name = "EMAIL_HOST_USER" -> {Unset, Str("noreply@host")}
      [] name = "POSTMARK_API_KEY" -> {Unset, Str("pm-token")}
      [] name = "AWS_SES_ACCESS_KEY_ID" -> {Unset, Str(""), Str("ses-id")}
      [] name = "AWS_ACCESS_KEY_ID" -> {Unset, Str("aws-id")}
      [] name = "AWS_SES_SECRET_ACCESS_KEY" -> {Unset, Str("ses-secret")}
      [] name = "AWS_SECRET_ACCESS_KEY" -> {Unset}
      [] name = "AWS_SES_REGION" -> {Unset}
      [] name = "AWS_DEFAULT_REGION" -> {Unset, Str("")}

\* getattr(obj, name, default)
Getattr(obj, name, default) ==
    IF name.t # "str"
    THEN Raised(TypeError("attribute name must be string"))
    ELSE IF /\ obj.t = "settings"
            /\ name.s \in DOMAIN settings
            /\ settings[name.s] # Unset
         THEN Ok(settings[name.s])
         ELSE Ok(default)

\* ------------------------------------------------------------- EmailEngine
Variants == {"DJANGO", "POSTMARK", "AWSSES"}

FROM_EMAIL == Getattr(Str("EMAIL_HOST_USER"), SettingsObj, None)

AWSSESEmailEngine_get_configuration ==
    DictDisplay(
      << <<"AWS_SES_ACCESS_KEY_ID",
           Or(Getattr(SettingsObj, Str("AWS_SES_ACCESS_KEY_ID"), None),
              Getattr(SettingsObj, Str("AWS_ACCESS_KEY_ID"), None))>>,
         <<"AWS_SES_SECRET_ACCESS_KEY",
           Or(Getattr(SettingsObj, Str("AWS_SES_SECRET_ACCESS_KEY"), None),
              Getattr(SettingsObj, Str("AWS_SECRET_ACCESS_KEY"), None))>>,
         <<"AWS_SES_REGION",
           Or(Getattr(SettingsObj, Str("AWS_SES_REGION"), None),
              Getattr(SettingsObj, Str("AWS_DEFAULT_REGION"),
                      Str("us-east-1")))>> >>,
      <<>>)

PostmarkEmailEngine_get_configuration ==
    DictDisplay(
      << <<"POSTMARK_API_KEY",
           Getattr(Str("POSTMARK_API_KEY"), SettingsObj, None)>> >>,
      <<>>)

DjangoEmailEngine_get_configuration == Ok(Dict(<<>>))

get_configuration(cls) ==
    CASE cls = "AWSSES" -> AWSSESEmailEngine_get_configuration
      [] cls = "POSTMARK" -> PostmarkEmailEngine_get_configuration
      [] cls = "DJANGO" -> DjangoEmailEngine_get_configuration

\* ------------------------------------------------ class attribute lookup
\* The names each class body binds.  A name written __x inside the body of
\* class C is the attribute _C__x.
ClassNames(c) ==
    CASE c = "EmailEngine" ->
           {"ERRORS", "FROM_EMAIL", "get_configurations",
            "get_email_sending_parameters", "_EmailEngine__send_mail",
            "send_mail", "get_html_message", "_EmailEngine__is_sufficient",
            "is_configuration_sufficient",
            "is_email_sending_parameters_sufficient", "get_email_status"}
      [] c = "AWSSES" ->
           {"get_configuration", "get_email_sending_parameters",
            "get_aws_ses_client", "_AWSSESEmailEngine__send_mail"}
      [] c = "POSTMARK" ->
           {"get_configuration", "get_email_sending_parameters",
            "get_postmark_client", "_PostmarkEmailEngine__send_mail"}
      [] c = "DJANGO" ->
           {"get_configuration", "get_email_sending_parameters",
            "_DjangoEmailEngine__send_mail"}

\* the name the send hook has in the body of class c
HookName(c) ==
    CASE c = "EmailEngine" -> "_EmailEngine__send_mail"
      [] c = "AWSSES" -> "_AWSSESEmailEngine__send_mail"
      [] c = "POSTMARK" -> "_PostmarkEmailEngine__send_mail"
      [] c = "DJANGO" -> "_DjangoEmailEngine__send_mail"

\* cls.<name>: the class of the method resolution order that binds it
Owner(cls, name) ==
    IF name \in ClassNames(cls) THEN cls
    ELSE IF name \in ClassNames("EmailEngine") THEN "EmailEngine"
    ELSE "AttributeError"

\* ------------------------------------------------------ sending parameters
NoCall == [given |-> FALSE]
Call(to, from, kw) == [given |-> TRUE, to |-> to, from |-> from, kw |-> kw]

\* kwargs.get(key, default)
KwGet(kw, key, default) ==
    IF key \in KeySet(kw) THEN kw.items[Lookup(kw, key)][2] ELSE default

AWSSESEmailEngine_get_email_sending_parameters(call) ==
    DictDisplay(
      << <<"Source", Or(Ok(call.from), FROM_EMAIL)>>,
         <<"Destination",
           Ok(Dict(<< <<"ToAddresses",
                        IF call.to.t = "list" THEN call.to
                        ELSE List(<<call.to>>)>>,
                      <<"CcAddresses", KwGet(call.kw, "ccs", Str(""))>>,
                      <<"BccAddresses", KwGet(call.kw, "bccs", Str(""))>> >>))>>,
         <<"Message",
           Ok(Dict(<< <<"Body",
                        Dict(<< <<"Html",
                                  Dict(<< <<"Charset", Str("UTF-8")>>,
                                          <<"Data", KwGet(call.kw, "HtmlBody",
                                                          Str(""))>> >>)>> >>)>>,
                      <<"Subject",
                        Dict(<< <<"Charset", Str("UTF-8")>>,
                                <<"Data", KwGet(call.kw, "Subject",
                                                Str(""))>> >>)>> >>))>> >>,
      <<>>)

PostmarkEmailEngine_get_email_sending_parameters(call) ==
    DictDisplay(
      << <<"From", Or(Ok(call.from), FROM_EMAIL)>>,
         <<"To", Ok(call.to)>>,
         <<"Subject", Ok(KwGet(call.kw, "Subject", Str("")))>>,
         <<"HtmlBody", Ok(KwGet(call.kw, "HtmlBody", Str("")))>> >>,
      <<>>)

DjangoEmailEngine_get_email_sending_parameters(call) ==
    DictDisplay(
      << <<"from_email", Or(Ok(call.from), FROM_EMAIL)>>,
         <<"recipient_list", Ok(List(<<call.to>>))>>,
         <<"message", Ok(KwGet(call.kw, "message", Str("")))>>,
         <<"subject", Ok(KwGet(call.kw, "subject", Str("")))>>,
         <<"html_message", Ok(KwGet(call.kw, "html_message", Str("")))>> >>,
      <<>>)

\* to_email has no default: a call that leaves it out fails before the body
get_email_sending_parameters(cls, call) ==
    IF ~call.given
    THEN Raised(TypeError("missing 1 required positional argument: 'to_email'"))
    ELSE CASE cls = "AWSSES" -> AWSSESEmailEngine_get_email_sending_parameters(call)
           [] cls = "POSTMARK" -> PostmarkEmailEngine_get_email_sending_parameters(call)
           [] cls = "DJANGO" -> DjangoEmailEngine_get_email_sending_parameters(call)

\* --------------------------------------------------- validation and dispatch
\* what a method leaves behind: its outcome, ERRORS, the transport log, the
\* lines printed and the send hooks entered
Res(exc, val, E, S, out, trace) ==
    [exc |-> exc, val |-> val, ERRORS |-> E, sent |-> S, out |-> out,
     trace |-> trace]

\* f"{_key} is missing in {marker}"
MissingText(key, marker) == <<key, " is missing in ", marker>>

\* is_sufficient that reports the outcome without recording the errors
is_sufficient_unrecorded(resource, marker, E) ==
    [exc |-> NoExc,
     val |-> Bool(\A i \in 1..Len(resource.items) : Truthy(Values(resource)[i])),
     ERRORS |-> E]

is_sufficient(resource, marker, E) ==
    IF \A i \in 1..Len(resource.items) : Truthy(Values(resource)[i])
    THEN [exc |-> NoExc, val |-> Bool(TRUE), ERRORS |-> E]
    ELSE [exc |-> NoExc, val |-> Bool(FALSE),
          ERRORS |-> E \o [i \in 1..Len(resource.items) |->
                             MissingText(Keys(resource)[i], marker)]]

is_configuration_sufficient(cls, E) ==
    LET configurations == get_configuration(cls) IN
    IF ~IsOk(configurations)
    THEN [exc |-> configurations.exc, val |-> None, ERRORS |-> E]
    ELSE is_sufficient(configurations.val, "Settings", E)

is_email_sending_parameters_sufficient(cls, E) ==
    LET email_sending_parameters == get_email_sending_parameters(cls, NoCall) IN
    IF ~IsOk(email_sending_parameters)
    THEN [exc |-> email_sending_parameters.exc, val |-> None, ERRORS |-> E]
    ELSE is_sufficient(email_sending_parameters.val,
                       "Email sending parameters", E)

get_email_status(cls, E) ==
    LET a == is_configuration_sufficient(cls, E) IN
    IF ~IsOk(a) THEN a
    ELSE LET b == is_email_sending_parameters_sufficient(cls, a.ERRORS) IN
         IF ~IsOk(b) THEN b
         ELSE [exc |-> NoExc, val |-> Bool(Len(b.ERRORS) = 0),
               ERRORS |-> b.ERRORS]

\* ------------------------------------------------------------- send hooks
\* What the third-party calls do is the environment's choice: whether the
\* client constructor returns, and whether the transport call returns.
Envs ==
    {[client_ok |-> TRUE, transport_ok |-> TRUE],
     [client_ok |-> FALSE, transport_ok |-> TRUE],
     [client_ok |-> TRUE, transport_ok |-> FALSE]}

FixErrorsLine(E) ==
    [text |-> "Fix the following ERRORS : {cls.ERRORS} ", ERRORS |-> E]
SendingErrorLine(e) == [text |-> "Email Sending Error {Err}", Err |-> e]
SentLine == [text |-> "Email Sent"]
AttributeError(text) == [type |-> "AttributeError", text |-> text]
TransportFailure == [type |-> "Exception", text |-> "transport failure"]

\* the call handed to a third-party transport
Transport(name, payload) == [transport |-> name, payload |-> payload]

\* the try/except/else around the transport call of the three hooks:
\* client is the evaluation of the expression the send is called on
Deliver(hook, transport, client, payload, E, S, env) ==
    IF ~IsOk(client)
    THEN Res(NoExc, None, E, S, <<SendingErrorLine(client.exc)>>, <<hook>>)
    ELSE IF client.val = None
    THEN Res(NoExc, None, E, S,
             <<SendingErrorLine(AttributeError("'NoneType' object has no attribute"))>>,
             <<hook>>)
    ELSE IF ~env.transport_ok
    THEN Res(NoExc, None, E, Append(S, Transport(transport, payload)),
             <<SendingErrorLine(TransportFailure)>>, <<hook>>)
    ELSE Res(NoExc, None, E, Append(S, Transport(transport, payload)),
             <<SentLine>>, <<hook>>)

\* a staticmethod declared with the parameter cls; args are the arguments of
\* the call
get_aws_ses_client(args, env) ==
    IF Len(args) # 1
    THEN Raised(TypeError("missing 1 required positional argument: 'cls'"))
    ELSE IF IsOk(get_configuration(args[1])) /\ env.client_ok
         THEN Ok([t |-> "client", name |-> "ses"])
         ELSE Ok(None)

get_postmark_client(args, env) ==
    IF Len(args) # 1
    THEN Raised(TypeError("missing 1 required positional argument: 'cls'"))
    ELSE IF settings["POSTMARK_API_KEY"] # Unset /\ env.client_ok
         THEN Ok([t |-> "client", name |-> "postmark"])
         ELSE Ok(None)

\* EmailEngine.__send_mail: pass
EmailEngine_send_mail_hook(cls, call, E, S, env) ==
    Res(NoExc, None, E, S, <<>>, <<HookName("EmailEngine")>>)

AWSSESEmailEngine_send_mail_hook(cls, call, E, S, env) ==
    LET email_parameters == get_email_sending_parameters(cls, call) IN
    IF ~IsOk(email_parameters)
    THEN Res(email_parameters.exc, None, E, S, <<>>, <<HookName("AWSSES")>>)
    ELSE Deliver(HookName("AWSSES"), "ses.send_email",
                 get_aws_ses_client(<<>>, env), email_parameters.val, E, S, env)

PostmarkEmailEngine_send_mail_hook(cls, call, E, S, env) ==
    LET email_parameters == get_email_sending_parameters(cls, call) IN
    IF ~IsOk(email_parameters)
    THEN Res(email_parameters.exc, None, E, S, <<>>, <<HookName("POSTMARK")>>)
    ELSE Deliver(HookName("POSTMARK"), "postmark.emails.send",
                 get_postmark_client(<<>>, env), email_parameters.val, E, S, env)

DjangoEmailEngine_send_mail_hook(cls, call, E, S, env) ==
    LET email_parameters == get_email_sending_parameters(cls, call) IN
    IF ~IsOk(email_parameters)
    THEN Res(email_parameters.exc, None, E, S, <<>>, <<HookName("DJANGO")>>)
    ELSE Deliver(HookName("DJANGO"), "django.core.mail.send_mail",
                 Ok([t |-> "module", name |-> "django.core.mail"]),
                 email_parameters.val, E, S, env)

\* the hook bound in class owner, called on cls
send_mail_hook(owner, cls, call, E, S, env) ==
    CASE owner = "EmailEngine" -> EmailEngine_send_mail_hook(cls, call, E, S, env)
      [] owner = "AWSSES" -> AWSSESEmailEngine_send_mail_hook(cls, call, E, S, env)
      [] owner = "POSTMARK" -> PostmarkEmailEngine_send_mail_hook(cls, call, E, S, env)
      [] owner = "DJANGO" -> DjangoEmailEngine_send_mail_hook(cls, call, E, S, env)
      [] OTHER -> Res(AttributeError("type object has no attribute"), None,
                      E, S, <<>>, <<>>)

\* send_mail whose parameter check reads the arguments of the call
send_mail_checking_call(cls, call, E, S, env) ==
    LET a == is_configuration_sufficient(cls, E)
        p == get_email_sending_parameters(cls, call)
        b == IF ~IsOk(a) THEN a
             ELSE IF ~IsOk(p) THEN [exc |-> p.exc, val |-> None, ERRORS |-> a.ERRORS]
             ELSE is_sufficient(p.val, "Email sending parameters", a.ERRORS)
    IN
    IF ~IsOk(b) THEN Res(b.exc, None, b.ERRORS, S, <<>>, <<>>)
    ELSE IF Len(b.ERRORS) = 0
    THEN send_mail_hook(Owner(cls, HookName("EmailEngine")), cls, call,
                        b.ERRORS, S, env)
    ELSE Res(NoExc, None, b.ERRORS, S, <<FixErrorsLine(b.ERRORS)>>, <<>>)

\* EmailEngine.send_mail; cls.__send_mail is written in the body of
\* EmailEngine, so it is the attribute _EmailEngine__send_mail of cls
send_mail(cls, call, E, S, env) ==
    LET can_send_emails == get_email_status(cls, E) IN
    IF ~IsOk(can_send_emails)
    THEN Res(can_send_emails.exc, None, can_send_emails.ERRORS, S, <<>>, <<>>)
    ELSE IF Truthy(can_send_emails.val)
    THEN send_mail_hook(Owner(cls, HookName("EmailEngine")), cls, call,
                        can_send_emails.ERRORS, S, env)
    ELSE Res(NoExc, None, can_send_emails.ERRORS, S,
             <<FixErrorsLine(can_send_emails.ERRORS)>>, <<>>)

\* ---------------------------------------------------------- engine factory
FactoryKeys == <<"DJANGO", "POSTMARK", "AWSSES">>

EngineNames == {"DJANGO", "POSTMARK", "AWSSES", "SMTP", "django"}

\* raise <value>: only an exception can be raised
RaiseStatement(value) ==
    IF value.t = "exception" THEN Raised(value.e)
    ELSE Raised(TypeError("exceptions must derive from BaseException"))

email_engine_factory(engine_name) ==
    IF \E i \in 1..Len(FactoryKeys) : FactoryKeys[i] = engine_name
    THEN Ok(Class(engine_name))
    ELSE RaiseStatement(
           [t |-> "str",
            s |-> "Invalid Email engine name {engine_name}, choose from {keys}",
            engine_name |-> engine_name,
            keys |-> FactoryKeys])

\* ------------------------------------------------------------------ state
Idle ==
    [op |-> "init", cls |-> "", call |-> NoCall, exc |-> NoExc, val |-> None,
     out |-> <<>>, trace |-> <<>>, nsent |-> 0, newerr |-> <<>>]

Init ==
    /\ settings = [n \in SettingNames |-> Unset]
    /\ ERRORS = <<>>
    /\ sent = <<>>
    /\ last = Idle

SetSetting(name, v) ==
    /\ settings[name] # v
    /\ settings' = [settings EXCEPT ![name] = v]
    /\ last' = [Idle EXCEPT !.op = "set_setting"]
    /\ UNCHANGED <<ERRORS, sent>>

Factory(name) ==
    LET r == email_engine_factory(name) IN
    /\ last' = [Idle EXCEPT !.op = "email_engine_factory", !.cls = name,
                            !.exc = r.exc, !.val = r.val]
    /\ UNCHANGED <<settings, ERRORS, sent>>

GetConfiguration(cls) ==
    LET r == get_configuration(cls) IN
    /\ last' = [Idle EXCEPT !.op = "get_configuration", !.cls = cls,
                            !.exc = r.exc, !.val = r.val]
    /\ UNCHANGED <<settings, ERRORS, sent>>

GetEmailSendingParameters(cls, call) ==
    LET r == get_email_sending_parameters(cls, call) IN
    /\ last' = [Idle EXCEPT !.op = "get_email_sending_parameters", !.cls = cls,
                            !.call = call, !.exc = r.exc, !.val = r.val]
    /\ UNCHANGED <<settings, ERRORS, sent>>

\* the record of a call that left ERRORS as r.ERRORS
Checked(op, cls, r) ==
    [Idle EXCEPT !.op = op, !.cls = cls, !.exc = r.exc, !.val = r.val,
                 !.newerr = SubSeq(r.ERRORS, Len(ERRORS) + 1, Len(r.ERRORS))]

IsConfigurationSufficient(cls) ==
    LET r == is_configuration_sufficient(cls, ERRORS) IN
    /\ Len(r.ERRORS) <= MaxErrors
    /\ ERRORS' = r.ERRORS
    /\ last' = Checked("is_configuration_sufficient", cls, r)
    /\ UNCHANGED <<settings, sent>>

IsEmailSendingParametersSufficient(cls) ==
    LET r == is_email_sending_parameters_sufficient(cls, ERRORS) IN
    /\ Len(r.ERRORS) <= MaxErrors
    /\ ERRORS' = r.ERRORS
    /\ last' = Checked("is_email_sending_parameters_sufficient", cls, r)
    /\ UNCHANGED <<settings, sent>>

GetEmailStatus(cls) ==
    LET r == get_email_status(cls, ERRORS) IN
    /\ Len(r.ERRORS) <= MaxErrors
    /\ ERRORS' = r.ERRORS
    /\ last' = Checked("get_email_status", cls, r)
    /\ UNCHANGED <<settings, sent>>

\* the record of a call that left the class state as r
Sent(op, cls, call, r) ==
    [op |-> op, cls |-> cls, call |-> call, exc |-> r.exc, val |-> r.val,
     out |-> r.out, trace |-> r.trace, nsent |-> Len(r.sent) - Len(sent),
     newerr |-> SubSeq(r.ERRORS, Len(ERRORS) + 1, Len(r.ERRORS))]

SendMail(cls, call, env) ==
    LET r == send_mail(cls, call, ERRORS, sent, env) IN
    /\ Len(r.ERRORS) <= MaxErrors
    /\ Len(r.sent) <= MaxSent
    /\ ERRORS' = r.ERRORS
    /\ sent' = r.sent
    /\ last' = Sent("send_mail", cls, call, r)
    /\ UNCHANGED settings

\* a variant's own hook, called by the name its class binds it to
SendMailHook(cls, call, env) ==
    LET r == send_mail_hook(Owner(cls, HookName(cls)), cls, call, ERRORS,
                            sent, env) IN
    /\ Len(r.sent) <= MaxSent
    /\ ERRORS' = r.ERRORS
    /\ sent' = r.sent
    /\ last' = Sent(HookName(cls), cls, call, r)
    /\ UNCHANGED settings

\* the arguments of the calls of the model
FullKwargs ==
    Dict(<< <<"Subject", Str("Hi")>>, <<"HtmlBody", Str("<p>hi</p>")>>,
            <<"subject", Str("Hi")>>, <<"message", Str("hi")>>,
            <<"html_message", Str("<p>hi</p>")>> >>)
Calls ==
    {Call(Str(""), Str(""), Dict(<<>>)),
     Call(Str("a@b.com"), Str(""), FullKwargs),
     Call(Str("a@b.com"), Str("me@x.org"), FullKwargs)}

Next ==
    \/ \E n \in SettingNames : \E v \in SettingValues(n) : SetSetting(n, v)
    \/ \E name \in EngineNames : Factory(name)
    \/ \E cls \in Variants : GetConfiguration(cls)
    \/ \E cls \in Variants : \E call \in Calls \cup {NoCall} :
          GetEmailSendingParameters(cls, call)
    \/ \E cls \in Variants : IsConfigurationSufficient(cls)
    \/ \E cls \in Variants : IsEmailSendingParametersSufficient(cls)
    \/ \E cls \in Variants : GetEmailStatus(cls)
    \/ \E cls \in Variants : \E call \in Calls : \E env \in Envs :
          SendMail(cls, call, env)
    \/ \E cls \in Variants : \E call \in Calls : \E env \in Envs :
          SendMailHook(cls, call, env)

Spec == Init /\ [][Next]_vars

\* ----------------------------------------------------------------- claims
\* What the documentation calls a present setting, and the configuration
\* values it requires of each variant.
Present(name) == settings[name] \notin {Unset, Str("")}
AccessKeyPresent == Present("AWS_SES_ACCESS_KEY_ID") \/ Present("AWS_ACCESS_KEY_ID")
SecretPresent == Present("AWS_SES_SECRET_ACCESS_KEY") \/ Present("AWS_SECRET_ACCESS_KEY")
RegionPresent == Present("AWS_SES_REGION") \/ Present("AWS_DEFAULT_REGION")
ConfigMissing(cls) ==
    CASE cls = "DJANGO" -> FALSE
      [] cls = "POSTMARK" -> ~Present("POSTMARK_API_KEY")
      [] cls = "AWSSES" -> ~AccessKeyPresent \/ ~SecretPresent \/ ~RegionPresent
DocumentedKeys(cls) ==
    CASE cls = "DJANGO" -> {}
      [] cls = "POSTMARK" -> {"POSTMARK_API_KEY"}
      [] cls = "AWSSES" -> {"AWS_SES_ACCESS_KEY_ID", "AWS_SES_SECRET_ACCESS_KEY",
                            "AWS_SES_REGION"}
TransportOf(cls) ==
    CASE cls = "DJANGO" -> "django.core.mail.send_mail"
      [] cls = "POSTMARK" -> "postmark.emails.send"
      [] cls = "AWSSES" -> "ses.send_email"
Elements(seq) == {seq[i] : i \in 1..Len(seq)}
ErrorsBefore == Len(ERRORS) - Len(last.newerr)
AccessKeyError == MissingText("AWS_SES_ACCESS_KEY_ID", "Settings")
\* a call whose recipient, sender, subject and bodies are all given
FullCall(call) ==
    /\ call.given
    /\ Truthy(call.to) /\ Truthy(call.from)
    /\ call.kw = FullKwargs

\* C1: a send_mail call made while a required configuration value of its
\* variant is missing hands nothing to any transport; for the cloud variant
\* with no access key id, ERRORS afterwards holds the error that names
\* AWS_SES_ACCESS_KEY_ID.
C1_NoTransportWhenConfigMissing ==
    (last.op = "send_mail" /\ ConfigMissing(last.cls)) =>
        /\ last.nsent = 0
        /\ \A i \in 1..Len(last.trace) :
              last.trace[i] = HookName("EmailEngine")
        /\ (last.cls = "AWSSES" /\ ~AccessKeyPresent) =>
              AccessKeyError \in Elements(ERRORS)

C1_Witness ==
    /\ last.op = "send_mail"
    /\ last.cls = "AWSSES"
    /\ ~AccessKeyPresent
    /\ AccessKeyError \in Elements(last.newerr)
    /\ sent # <<>>
    /\ last.nsent = 0

\* C9: whether send_mail sends does not depend on the arguments of the call:
\* from one state of the settings and of ERRORS, two calls with different
\* (to, from, fields) both enter the send branch or neither does, both reach
\* a transport or neither does, and validation records the same for both;
\* so an empty recipient is not what validation rejects.
C9_DecisionIndependentOfArguments ==
    /\ \A cls \in Variants : \A env \in Envs : \A c1 \in Calls : \A c2 \in Calls :
          LET r1 == send_mail(cls, c1, ERRORS, sent, env)
              r2 == send_mail(cls, c2, ERRORS, sent, env)
          IN /\ (r1.trace # <<>>) <=> (r2.trace # <<>>)
             /\ (Len(r1.sent) > Len(sent)) <=> (Len(r2.sent) > Len(sent))
             /\ r1.exc = r2.exc
             /\ r1.ERRORS = r2.ERRORS
    /\ (last.op = "send_mail" /\ last.call.to = Str("")) =>
          LET r == send_mail(last.cls,
                             [last.call EXCEPT !.to = Str("a@b.com")],
                             SubSeq(ERRORS, 1, ErrorsBefore),
                             SubSeq(sent, 1, Len(sent) - last.nsent),
                             CHOOSE env \in Envs : TRUE)
          IN /\ last.exc = r.exc
             /\ last.newerr = SubSeq(r.ERRORS, ErrorsBefore + 1, Len(r.ERRORS))
             /\ (last.trace # <<>>) <=> (r.trace # <<>>)

C9_Witness ==
    /\ last.op = "send_mail"
    /\ last.call.to = Str("")
    /\ last.cls = "DJANGO"
    /\ ErrorsBefore = 0

\* C2: a send_mail call made with the configuration present, every parameter
\* of the call given and ERRORS empty hands exactly one call to the transport
\* of its variant, through the variant's own send hook, and none to another.
C2_ExactlyOneTransportCall ==
    (/\ last.op = "send_mail"
     /\ ~ConfigMissing(last.cls)
     /\ FullCall(last.call)
     /\ ErrorsBefore = 0) =>
        /\ last.nsent = 1
        /\ last.trace = <<HookName(last.cls)>>
        /\ sent[Len(sent)].transport = TransportOf(last.cls)

\* C3: is_configuration_sufficient, on the mapping get_configuration returns,
\* returns True and records nothing when every value is present, and
\* otherwise returns False and records exactly one "<key> is missing in
\* Settings" for each key whose value is missing and none for the others.
C3_OneErrorPerMissingKey ==
    (last.op = "is_configuration_sufficient" /\ IsOk(get_configuration(last.cls))) =>
        LET cfg == get_configuration(last.cls).val
            missing == {i \in 1..Len(cfg.items) : ~Truthy(cfg.items[i][2])}
        IN /\ last.exc = NoExc
           /\ last.val = Bool(missing = {})
           /\ Len(last.newerr) = Cardinality(missing)
           /\ Elements(last.newerr) =
                 {MissingText(cfg.items[i][1], "Settings") : i \in missing}

\* C4: the factory returns the variant of the name for "DJANGO", "POSTMARK"
\* and "AWSSES", and for any other name fails with an error whose content
\* lists these three names.
C4_FactoryResolvesOrListsNames ==
    (last.op = "email_engine_factory") =>
        IF last.cls \in {"DJANGO", "POSTMARK", "AWSSES"}
        THEN last.exc = NoExc /\ last.val = Class(last.cls)
        ELSE /\ last.exc # NoExc
             /\ "keys" \in DOMAIN last.exc
             /\ Elements(last.exc.keys) = {"DJANGO", "POSTMARK", "AWSSES"}

\* C5: send_mail never raises to its caller: every call returns normally.
C5_SendMailNeverRaises ==
    (last.op = "send_mail") => last.exc = NoExc

\* C6: get_configuration returns, without failing, a mapping with exactly the
\* documented keys of the variant; a setting that is absent is a null or
\* empty value under its key, and each cloud value is the SES setting when
\* set and the generic cloud setting otherwise.
C6_ConfigurationKeysAndValues ==
    (last.op = "get_configuration") =>
        /\ last.exc = NoExc
        /\ last.val.t = "dict"
        /\ KeySet(last.val) = DocumentedKeys(last.cls)
        /\ Len(last.val.items) = Cardinality(DocumentedKeys(last.cls))
        /\ last.cls = "POSTMARK" =>
              KwGet(last.val, "POSTMARK_API_KEY", Unset) =
                 (IF settings["POSTMARK_API_KEY"] = Unset THEN None
                  ELSE settings["POSTMARK_API_KEY"])
        /\ last.cls = "AWSSES" =>
              \A pair \in {<<"AWS_SES_ACCESS_KEY_ID", "AWS_ACCESS_KEY_ID">>,
                           <<"AWS_SES_SECRET_ACCESS_KEY", "AWS_SECRET_ACCESS_KEY">>,
                           <<"AWS_SES_REGION", "AWS_DEFAULT_REGION">>} :
                 KwGet(last.val, pair[1], Unset) =
                    (IF Present(pair[1]) THEN settings[pair[1]]
                     ELSE IF settings[pair[2]] = Unset THEN None
                     ELSE settings[pair[2]])

\* C7: the payload the transactional variant builds for a call and hands to
\* its transport has exactly the fields From, To, Subject, HtmlBody, with To,
\* Subject and HtmlBody those of the call and From the sender of the call
\* when it is not empty and the configured default sender otherwise.
DefaultSender ==
    IF settings["EMAIL_HOST_USER"] = Unset THEN None ELSE settings["EMAIL_HOST_USER"]
ExpectedPostmarkPayload(call) ==
    Dict(<< <<"From", IF Truthy(call.from) THEN call.from ELSE DefaultSender>>,
            <<"To", call.to>>,
            <<"Subject", KwGet(call.kw, "Subject", Str(""))>>,
            <<"HtmlBody", KwGet(call.kw, "HtmlBody", Str(""))>> >>)
C7_PostmarkPayload ==
    /\ (/\ last.op \in {"get_email_sending_parameters", HookName("POSTMARK")}
        /\ last.cls = "POSTMARK"
        /\ last.call.given) =>
           /\ last.exc = NoExc
           /\ last.op = "get_email_sending_parameters" =>
                 last.val = ExpectedPostmarkPayload(last.call)
    /\ (last.cls = "POSTMARK" /\ last.nsent > 0) =>
           sent[Len(sent)].payload = ExpectedPostmarkPayload(last.call)

\* C8: ERRORS never gets shorter, and once it holds an error every later
\* get_email_status of every variant returns False and every later send_mail
\* hands nothing to a transport, whatever the settings have become.
C8_ErrorsPoisonEveryLaterCall ==
    /\ ErrorsBefore >= 0
    /\ (last.op = "get_email_status" /\ ErrorsBefore > 0) =>
          last.exc = NoExc /\ last.val = Bool(FALSE)
    /\ (last.op = "send_mail" /\ ErrorsBefore > 0) => last.nsent = 0

\* C10: the sufficiency check reads only the top-level values: the no-argument
\* parameter check of the cloud variant passes whenever its Source (the
\* default sender) is not empty, though every nested field is empty, and that
\* of the transactional and framework variants returns False, recording
\* errors, since top-level fields such as Subject are empty.
C10_TopLevelParameterCheck ==
    (last.op = "is_email_sending_parameters_sufficient") =>
        /\ last.exc = NoExc
        /\ (last.cls = "AWSSES" /\ Truthy(DefaultSender)) =>
              last.val = Bool(TRUE) /\ last.newerr = <<>>
        /\ last.cls \in {"POSTMARK", "DJANGO"} =>
              last.val = Bool(FALSE) /\ last.newerr # <<>>

====
